---- MODULE Spec2Model ----
(***************************************************************************)
(* CanvasPointer (src/src/CanvasPointer.ts): the gesture tracker that      *)
(* turns pointerdown / pointermove / pointerup events into click,          *)
(* double-click and drag callbacks.                                        *)
(*                                                                         *)
(* Every handler runs to completion (single-threaded, synchronous), so     *)
(* each public entry point is one action.  The private helpers are         *)
(* operators on a record holding the instance's fields; an action applies  *)
(* the handler to the current fields and stores the result.                *)
(*                                                                         *)
(* Environment assumptions: callbacks return normally and do not call back *)
(* into the tracker; pointer capture of the bound element is changed by    *)
(* the tracker alone; events arrive in timestamp order; the host declares  *)
(* the callbacks of a gesture after down(e), while the gesture lasts.      *)
(***************************************************************************)
EXTENDS Integers, Sequences, FiniteSets, TLC

\* ------------------------------------------------------------ constants

bufferTime == 150
doubleClickTime == 300
maxClickDrift == 6
maxClickDrift2 == maxClickDrift * maxClickDrift

\* ---------------------------------------------------------------- bounds

\* Event timestamps are multiples of bufferTime up to MaxTick * bufferTime.
MaxTick == 2
\* At most MaxMoves tracked pointermove events per session.
MaxMoves == 2
\* At most MaxResets explicit reset() calls in a row.
MaxResets == 2

\* ----------------------------------------------------------------- state

VARIABLES
    eDown, eMove, eUp,      \* last pointerdown / pointermove / pointerup event, or Null
    eLastDown,              \* down event of the last plain click, or Null
    dragStarted,
    isDown, isDouble,
    clearEventsOnReset,
    pointerId,              \* pointer id used by capture; NoPointer until the first down
    onClick, onDoubleClick, onDragStart, onDrag, onDragEnd,   \* TRUE when registered
    finallyCb,              \* the #finally slot: NoCallback, "f1" or "f2"
    captured,               \* pointer ids the bound element holds capture for
    \* history of the calls, not read by any handler
    op,                     \* name of the last call
    arg,                    \* the event it was passed, Null when it takes none
    ret,                    \* its return value
    fired,                  \* callbacks and capture calls it made, in order
    branch,                 \* the branch of #completeClick it took, "none" when it took none
    prevClick,              \* "click" or "double": how the most recent session that closed
                            \* as a click or a double click before the last call closed;
                            \* "none" when there was none
    resets,                 \* how many of the latest calls in a row were reset()
    open,                   \* TRUE from a down until the next reset
    cnt                     \* tallies of the effects of the current or most recent session

fields == <<eDown, eMove, eUp, eLastDown, dragStarted, isDown, isDouble,
            clearEventsOnReset, pointerId, onClick, onDoubleClick, onDragStart,
            onDrag, onDragEnd, finallyCb, captured>>

history == <<op, arg, ret, fired, branch, prevClick, resets, open, cnt>>

vars == <<fields, history>>

\* ---------------------------------------------------------------- events

NoPointer == 0
NoCallback == "none"

\* The event shape the tracker reads: pointerId, button, buttons, clientX,
\* clientY, timeStamp.  Null stands for null / undefined.
Null == [pointerId |-> NoPointer, button |-> -1, buttons |-> 0,
         clientX |-> 0, clientY |-> 0, timeStamp |-> -1]

Times == {k * bufferTime : k \in 0..MaxTick}

\* Positions at the thresholds: <<0,0>> and <<6,0>> are exactly maxClickDrift
\* apart, <<0,0>> and <<0,18>> exactly 3 * maxClickDrift, <<6,0>> and <<0,18>>
\* farther than that.
Points == {<<0, 0>>, <<maxClickDrift, 0>>, <<0, 3 * maxClickDrift>>}

Event(pid, button, buttons, pt, t) ==
    [pointerId |-> pid, button |-> button, buttons |-> buttons,
     clientX |-> pt[1], clientY |-> pt[2], timeStamp |-> t]

\* The buttons bit of a button index (0: primary -> 1, 2: secondary -> 2).
ButtonBit(button) == IF button = 0 THEN 1 ELSE 2

\* Bitwise AND of two button masks over the primary and secondary bits.
BitAnd(a, b) ==
    (IF a % 2 = 1 /\ b % 2 = 1 THEN 1 ELSE 0)
  + (IF (a \div 2) % 2 = 1 /\ (b \div 2) % 2 = 1 THEN 2 ELSE 0)

\* A pointerdown reports the pressed button in its buttons mask.
DownEventsOf(pids, buttonSet, pts, times) ==
    {Event(p, b, ButtonBit(b), pt, t) :
        p \in pids, b \in buttonSet, pt \in pts, t \in times}

\* A pointermove reports button -1 and the mask of the buttons still held.
MoveEventsOf(pids, masks, pts, times) ==
    {Event(p, -1, m, pt, t) : p \in pids, m \in masks, pt \in pts, t \in times}

\* A pointerup reports the released button.
UpEventsOf(pids, buttonSet, pts, times) ==
    {Event(p, b, 0, pt, t) : p \in pids, b \in buttonSet, pt \in pts, t \in times}

\* --------------------------------------------------------------- helpers

\* Squared Euclidean distance between two points (measure.dist2).
dist2(ax, ay, bx, by) == (bx - ax) * (bx - ax) + (by - ay) * (by - ay)

\* The instance's fields as one record; log collects the callbacks and capture
\* calls a handler makes, result is the handler's return value, branch the
\* branch #completeClick took.
This ==
    [eDown |-> eDown, eMove |-> eMove, eUp |-> eUp, eLastDown |-> eLastDown,
     dragStarted |-> dragStarted, isDown |-> isDown, isDouble |-> isDouble,
     clearEventsOnReset |-> clearEventsOnReset, pointerId |-> pointerId,
     onClick |-> onClick, onDoubleClick |-> onDoubleClick,
     onDragStart |-> onDragStart, onDrag |-> onDrag, onDragEnd |-> onDragEnd,
     finallyCb |-> finallyCb, captured |-> captured,
     log |-> <<>>, result |-> "void", branch |-> "none"]

\* cb?.(...): the callback runs when registered.
Invoke(s, registered, name) ==
    IF registered THEN [s EXCEPT !.log = Append(@, name)] ELSE s


\* The finally setter invoking the value it is given instead of the stored one.
setFinallyInvokesNew(s, value) ==
    [Invoke(s, value # NoCallback, value) EXCEPT !.finallyCb = value]

\* The finally setter keeping the stored callback when given undefined.
setFinallyKeepsOld(s, value) ==
    [Invoke(s, s.finallyCb # NoCallback, s.finallyCb)
        EXCEPT !.finallyCb = IF value = NoCallback THEN @ ELSE value]

\* set finally(value): runs the stored callback, then stores value.
setFinally(s, value) ==
    [Invoke(s, s.finallyCb # NoCallback, s.finallyCb) EXCEPT !.finallyCb = value]

hasSamePosition(a, b, tolerance2) ==
    dist2(a.clientX, a.clientY, b.clientX, b.clientY) <= tolerance2


\* isDoubleClick accepting a gap of exactly doubleClickTime.
isDoubleClickInclusive(s) ==
    IF s.eDown = Null \/ s.eLastDown = Null THEN FALSE
    ELSE LET tolerance2 == (3 * maxClickDrift) * (3 * maxClickDrift)
             diff == s.eDown.timeStamp - s.eLastDown.timeStamp
         IN  /\ diff > 0
             /\ diff <= doubleClickTime
             /\ hasSamePosition(s.eDown, s.eLastDown, tolerance2)

isDoubleClick(s) ==
    IF s.eDown = Null \/ s.eLastDown = Null THEN FALSE
    ELSE LET tolerance2 == (3 * maxClickDrift) * (3 * maxClickDrift)
             diff == s.eDown.timeStamp - s.eLastDown.timeStamp
         IN  /\ diff > 0
             /\ diff < doubleClickTime
             /\ hasSamePosition(s.eDown, s.eLastDown, tolerance2)


\* setDragStarted deleting onDragStart before calling it.
setDragStartedDeletesFirst(s) ==
    [Invoke(s, ~s.dragStarted, "dragStarted") EXCEPT !.dragStarted = TRUE,
                                                      !.onDragStart = FALSE]

\* "dragStarted" in the log marks the field changing from false to true.
setDragStarted(s) ==
    LET s1 == [Invoke(s, ~s.dragStarted, "dragStarted") EXCEPT !.dragStarted = TRUE]
    IN  [Invoke(s1, s1.onDragStart, "onDragStart") EXCEPT !.onDragStart = FALSE]


\* releaseCapture without the hasPointerCapture test.
releaseCaptureUnchecked(s) ==
    [s EXCEPT !.captured = @ \ {s.pointerId},
              !.log = Append(@, "releasePointerCapture")]

\* if (element.hasPointerCapture(pointerId)) element.releasePointerCapture(pointerId)
releaseCapture(s) ==
    IF s.pointerId \in s.captured
    THEN [s EXCEPT !.captured = @ \ {s.pointerId},
                   !.log = Append(@, "releasePointerCapture")]
    ELSE s


\* reset deleting only the callbacks that end a gesture: onDragStart and
\* onDrag are left in place.
clearCallbacksOfClose(s) ==
    [s EXCEPT !.onClick = FALSE, !.onDoubleClick = FALSE, !.onDragEnd = FALSE]

clearCallbacks(s) ==
    [s EXCEPT !.onClick = FALSE, !.onDoubleClick = FALSE, !.onDragStart = FALSE,
              !.onDrag = FALSE, !.onDragEnd = FALSE]

clearEvents(s) ==
    IF s.clearEventsOnReset
    THEN [s EXCEPT !.eDown = Null, !.eMove = Null, !.eUp = Null]
    ELSE s

\* reset without the assignment finally = undefined.
resetKeepsFinally(s) ==
    LET s1 == clearCallbacks(s)
        s2 == [s1 EXCEPT !.isDown = FALSE, !.isDouble = FALSE, !.dragStarted = FALSE]
    IN  releaseCapture(clearEvents(s2))

reset(s) ==
    LET s1 == clearCallbacks(setFinally(s, NoCallback))
        s2 == [s1 EXCEPT !.isDown = FALSE, !.isDouble = FALSE, !.dragStarted = FALSE]
    IN  releaseCapture(clearEvents(s2))


\* down without the call of reset.
downWithoutReset(s, e) ==
    [s EXCEPT !.eDown = e,
              !.pointerId = e.pointerId,
              !.captured = @ \cup {e.pointerId},
              !.log = Append(@, "setPointerCapture")]

down(s, e) ==
    LET s1 == reset(s)
    IN  [s1 EXCEPT !.eDown = e,
                   !.pointerId = e.pointerId,
                   !.captured = @ \cup {e.pointerId},
                   !.log = Append(@, "setPointerCapture")]


\* completeClick applying the drag test of move, elapsed time included, to the
\* closing event.
completeClickTimed(s, e) ==
    IF s.eDown = Null THEN s
    ELSE LET s1 == [s EXCEPT !.eUp = e]
         IN  IF s1.dragStarted
               THEN [Invoke(s1, s1.onDragEnd, "onDragEnd") EXCEPT !.branch = "drag"]
             ELSE IF e.timeStamp - s.eDown.timeStamp > bufferTime
                     \/ ~hasSamePosition(e, s.eDown, maxClickDrift2)
               THEN LET s2 == setDragStarted(s1)
                    IN  [Invoke(s2, s2.onDragEnd, "onDragEnd") EXCEPT !.branch = "teleport"]
             ELSE IF s1.onDoubleClick /\ isDoubleClick(s1)
               THEN [Invoke(s1, TRUE, "onDoubleClick") EXCEPT !.eLastDown = Null,
                                                              !.branch = "double"]
             ELSE [Invoke(s1, s1.onClick, "onClick") EXCEPT !.eLastDown = s.eDown,
                                                            !.branch = "click"]

\* completeClick with the else before the click branch lost: a double click
\* also runs the click branch.
completeClickFallThrough(s, e) ==
    IF s.eDown = Null THEN s
    ELSE LET s1 == [s EXCEPT !.eUp = e]
         IN  IF s1.dragStarted
               THEN [Invoke(s1, s1.onDragEnd, "onDragEnd") EXCEPT !.branch = "drag"]
             ELSE IF ~hasSamePosition(e, s.eDown, maxClickDrift2)
               THEN LET s2 == setDragStarted(s1)
                    IN  [Invoke(s2, s2.onDragEnd, "onDragEnd") EXCEPT !.branch = "teleport"]
             ELSE LET s3 == IF s1.onDoubleClick /\ isDoubleClick(s1)
                              THEN Invoke(s1, TRUE, "onDoubleClick")
                              ELSE s1
                  IN  [Invoke(s3, s3.onClick, "onClick") EXCEPT !.eLastDown = s.eDown,
                                                                !.branch = "click"]

\* completeClick recording the down event of a double click in eLastDown, as
\* the click branch does, instead of clearing eLastDown.
completeClickRecordsDouble(s, e) ==
    IF s.eDown = Null THEN s
    ELSE LET s1 == [s EXCEPT !.eUp = e]
         IN  IF s1.dragStarted
               THEN [Invoke(s1, s1.onDragEnd, "onDragEnd") EXCEPT !.branch = "drag"]
             ELSE IF ~hasSamePosition(e, s.eDown, maxClickDrift2)
               THEN LET s2 == setDragStarted(s1)
                    IN  [Invoke(s2, s2.onDragEnd, "onDragEnd") EXCEPT !.branch = "teleport"]
             ELSE IF s1.onDoubleClick /\ isDoubleClick(s1)
               THEN [Invoke(s1, TRUE, "onDoubleClick") EXCEPT !.eLastDown = s.eDown,
                                                              !.branch = "double"]
             ELSE [Invoke(s1, s1.onClick, "onClick") EXCEPT !.eLastDown = s.eDown,
                                                            !.branch = "click"]

completeClick(s, e) ==
    IF s.eDown = Null THEN s
    ELSE LET s1 == [s EXCEPT !.eUp = e]
         IN  IF s1.dragStarted
               THEN [Invoke(s1, s1.onDragEnd, "onDragEnd") EXCEPT !.branch = "drag"]
             ELSE IF ~hasSamePosition(e, s.eDown, maxClickDrift2)
               THEN LET s2 == setDragStarted(s1)
                    IN  [Invoke(s2, s2.onDragEnd, "onDragEnd") EXCEPT !.branch = "teleport"]
             ELSE IF s1.onDoubleClick /\ isDoubleClick(s1)
               THEN [Invoke(s1, TRUE, "onDoubleClick") EXCEPT !.eLastDown = Null,
                                                              !.branch = "double"]
             ELSE [Invoke(s1, s1.onClick, "onClick") EXCEPT !.eLastDown = s.eDown,
                                                            !.branch = "click"]



\* longerThanBufferTime true from exactly bufferTime on.
longerThanBufferTimeInclusive(e, d) == e.timeStamp - d.timeStamp >= bufferTime

\* longerThanBufferTime with the operands of the subtraction swapped.
longerThanBufferTimeSwapped(e, d) == d.timeStamp - e.timeStamp > bufferTime

longerThanBufferTime(e, d) == e.timeStamp - d.timeStamp > bufferTime




\* move resetting, without completing the click, when the session's button is
\* no longer pressed.
moveResetsOnRelease(s, e) ==
    IF s.eDown = Null THEN s
    ELSE IF e.buttons = 0 THEN reset(s)
    ELSE IF BitAnd(e.buttons, s.eDown.buttons) = 0 THEN reset(s)
    ELSE LET s1 == Invoke([s EXCEPT !.eMove = e], s.onDrag, "onDrag")
         IN  IF s1.dragStarted THEN s1
             ELSE IF longerThanBufferTime(e, s.eDown)
                     \/ ~hasSamePosition(e, s.eDown, maxClickDrift2)
               THEN setDragStarted(s1)
             ELSE s1

\* move treating an event with no buttons as a pointerup.
moveCompletesOnNoButtons(s, e) ==
    IF s.eDown = Null THEN s
    ELSE IF BitAnd(e.buttons, s.eDown.buttons) = 0 THEN reset(completeClick(s, e))
    ELSE LET s1 == Invoke([s EXCEPT !.eMove = e], s.onDrag, "onDrag")
         IN  IF s1.dragStarted THEN s1
             ELSE IF longerThanBufferTime(e, s.eDown)
                     \/ ~hasSamePosition(e, s.eDown, maxClickDrift2)
               THEN setDragStarted(s1)
             ELSE s1

\* move without the early return for a drag that has started.
moveRetestsDrag(s, e) ==
    IF s.eDown = Null THEN s
    ELSE IF e.buttons = 0 THEN reset(s)
    ELSE IF BitAnd(e.buttons, s.eDown.buttons) = 0 THEN reset(completeClick(s, e))
    ELSE LET s1 == Invoke([s EXCEPT !.eMove = e], s.onDrag, "onDrag")
         IN  IF longerThanBufferTime(e, s.eDown)
                \/ ~hasSamePosition(e, s.eDown, maxClickDrift2)
               THEN setDragStarted(s1)
             ELSE s1

move(s, e) ==
    IF s.eDown = Null THEN s
    ELSE IF e.buttons = 0 THEN reset(s)
    ELSE IF BitAnd(e.buttons, s.eDown.buttons) = 0 THEN reset(completeClick(s, e))
    ELSE LET s1 == Invoke([s EXCEPT !.eMove = e], s.onDrag, "onDrag")
         IN  IF s1.dragStarted THEN s1
             ELSE IF longerThanBufferTime(e, s.eDown)
                     \/ ~hasSamePosition(e, s.eDown, maxClickDrift2)
               THEN setDragStarted(s1)
             ELSE s1

\* return !dragStarted, read after #completeClick and before reset
upResult(dragStartedAfterComplete) ==
    IF dragStartedAfterComplete THEN "false" ELSE "true"

up(s, e) ==
    IF e.button # s.eDown.button THEN [s EXCEPT !.result = "false"]
    ELSE LET s1 == completeClick(s, e)
         IN  [reset(s1) EXCEPT !.result = upResult(s1.dragStarted)]

\* ------------------------------------------------------------- history

Tallied == {"onClick", "onDoubleClick", "onDragStart", "onDrag", "onDragEnd",
            "dragStarted", "releasePointerCapture", "move"}

ZeroCnt == [n \in Tallied |-> 0]

Occurrences(log, name) == Cardinality({i \in DOMAIN log : log[i] = name})

\* The session's tallies after a call that made the effects in log.
Tally(c, log) == [n \in Tallied |-> c[n] + Occurrences(log, n)]

Range(log) == {log[i] : i \in DOMAIN log}

\* The entries of log that are in names, in order.
Only(log, names) == SelectSeq(log, LAMBDA x : x \in names)

\* How the most recent session that closed as a click or a double click closed.
LastClick == IF branch \in {"click", "double"} THEN branch ELSE prevClick

\* Stores the fields, the effects and the return value a handler produced.
Store(s) ==
    /\ eDown' = s.eDown /\ eMove' = s.eMove /\ eUp' = s.eUp
    /\ eLastDown' = s.eLastDown
    /\ dragStarted' = s.dragStarted
    /\ isDown' = s.isDown /\ isDouble' = s.isDouble
    /\ clearEventsOnReset' = s.clearEventsOnReset
    /\ pointerId' = s.pointerId
    /\ onClick' = s.onClick /\ onDoubleClick' = s.onDoubleClick
    /\ onDragStart' = s.onDragStart /\ onDrag' = s.onDrag
    /\ onDragEnd' = s.onDragEnd
    /\ finallyCb' = s.finallyCb
    /\ captured' = s.captured
    /\ fired' = s.log
    /\ ret' = s.result
    /\ branch' = s.branch
    /\ prevClick' = LastClick

\* The session's tallies grow only by calls made while it is open.
Count(log) == cnt' = IF open THEN Tally(cnt, log) ELSE cnt

\* ------------------------------------------------------------- actions

InitWith(clear) ==
    /\ eDown = Null /\ eMove = Null /\ eUp = Null /\ eLastDown = Null
    /\ dragStarted = FALSE /\ isDown = FALSE /\ isDouble = FALSE
    /\ clearEventsOnReset = clear
    /\ pointerId = NoPointer
    /\ onClick = FALSE /\ onDoubleClick = FALSE /\ onDragStart = FALSE
    /\ onDrag = FALSE /\ onDragEnd = FALSE
    /\ finallyCb = NoCallback
    /\ captured = {}
    /\ op = "new" /\ ret = "void" /\ fired = <<>>
    /\ arg = Null /\ branch = "none" /\ prevClick = "none" /\ resets = 0
    /\ open = FALSE /\ cnt = ZeroCnt

Init == InitWith(TRUE)

\* The host forwards DOM events in arrival order, so an event's timeStamp is
\* never below that of an event the tracker still holds.
Latest ==
    LET held == {eDown.timeStamp, eMove.timeStamp, eUp.timeStamp, eLastDown.timeStamp}
    IN  CHOOSE t \in held : \A u \in held : u <= t

InOrder(e) == e.timeStamp >= Latest

Down(events) ==
    \E e \in events :
        /\ InOrder(e)
        /\ Store(down(This, e))
        /\ op' = "down" /\ resets' = 0
        /\ arg' = e /\ open' = TRUE
        /\ cnt' = ZeroCnt

\* The move is tracked: a session's down event is held and its button is still
\* in the event's mask.
Tracked(e) == eDown # Null /\ BitAnd(e.buttons, eDown.buttons) # 0

Move(events) ==
    \E e \in events :
        /\ InOrder(e)
        /\ Tracked(e) => cnt["move"] < MaxMoves
        /\ LET s == move(This, e)
           IN  /\ Store(s)
               /\ Count(IF Tracked(e) THEN Append(s.log, "move") ELSE s.log)
        /\ op' = "move" /\ resets' = 0
        /\ open' = (open /\ (eDown = Null \/ Tracked(e)))
        /\ arg' = e

Up(events) ==
    \E e \in events :
        /\ InOrder(e)
        /\ LET s == up(This, e)
           IN  Store(s) /\ Count(s.log)
        /\ op' = "up" /\ resets' = 0
        /\ open' = (open /\ e.button # eDown.button)
        /\ arg' = e

Reset ==
    /\ resets < MaxResets
    /\ LET s == reset(This)
       IN  Store(s) /\ Count(s.log)
    /\ op' = "reset" /\ resets' = resets + 1
    /\ open' = FALSE
    /\ arg' = Null

\* pointer.finally = f
SetFinally(callbacks) ==
    \E f \in callbacks :
        /\ open
        /\ LET s == setFinally(This, f)
           IN  Store(s) /\ Count(s.log)
        /\ op' = "finally" /\ resets' = 0
        /\ arg' = Null
        /\ open' = open

\* An assignment to a plain field by the host: no handler runs.
Assigned ==
    /\ op' = "assign" /\ arg' = Null /\ ret' = "void" /\ fired' = <<>>
    /\ branch' = "none" /\ prevClick' = LastClick /\ resets' = 0
    /\ UNCHANGED <<open, cnt>>

\* pointer.onClick = ... and the like: the host declares the callbacks of a
\* gesture after down(e), while the gesture lasts.
SetOnClick ==
    /\ open /\ ~onClick
    /\ onClick' = TRUE
    /\ UNCHANGED <<eDown, eMove, eUp, eLastDown, dragStarted, isDown, isDouble,
                   clearEventsOnReset, pointerId, onDoubleClick, onDragStart,
                   onDrag, onDragEnd, finallyCb, captured>>
    /\ Assigned

SetOnDoubleClick ==
    /\ open /\ ~onDoubleClick
    /\ onDoubleClick' = TRUE
    /\ UNCHANGED <<eDown, eMove, eUp, eLastDown, dragStarted, isDown, isDouble,
                   clearEventsOnReset, pointerId, onClick, onDragStart,
                   onDrag, onDragEnd, finallyCb, captured>>
    /\ Assigned

SetOnDragStart ==
    /\ open /\ ~onDragStart
    /\ onDragStart' = TRUE
    /\ UNCHANGED <<eDown, eMove, eUp, eLastDown, dragStarted, isDown, isDouble,
                   clearEventsOnReset, pointerId, onClick, onDoubleClick,
                   onDrag, onDragEnd, finallyCb, captured>>
    /\ Assigned

SetOnDrag ==
    /\ open /\ ~onDrag
    /\ onDrag' = TRUE
    /\ UNCHANGED <<eDown, eMove, eUp, eLastDown, dragStarted, isDown, isDouble,
                   clearEventsOnReset, pointerId, onClick, onDoubleClick,
                   onDragStart, onDragEnd, finallyCb, captured>>
    /\ Assigned

SetOnDragEnd ==
    /\ open /\ ~onDragEnd
    /\ onDragEnd' = TRUE
    /\ UNCHANGED <<eDown, eMove, eUp, eLastDown, dragStarted, isDown, isDouble,
                   clearEventsOnReset, pointerId, onClick, onDoubleClick,
                   onDragStart, onDrag, finallyCb, captured>>
    /\ Assigned

\* ------------------------------------------------------- specifications

\* Gestures of one pointer and its primary button, with clearEventsOnReset at
\* its default; a pointermove may report the primary button, the secondary one
\* or none, at the origin or at the far point.
MovePoints == {<<0, 0>>, <<0, 3 * maxClickDrift>>}
DownEvents == DownEventsOf({1}, {0}, Points, Times)
MoveEvents ==
    MoveEventsOf({1}, {1, 2}, MovePoints, Times) \cup MoveEventsOf({1}, {0}, {<<0, 0>>}, Times)
UpEvents == UpEventsOf({1}, {0}, Points, Times)

Next ==
    \/ Down(DownEvents)
    \/ Move(MoveEvents)
    \/ Up(UpEvents)
    \/ Reset
    \/ SetOnClick
    \/ SetOnDoubleClick
    \/ SetOnDragStart
    \/ SetOnDrag
    \/ SetOnDragEnd

Spec == Init /\ [][Next]_vars

\* The host declares all five callbacks of a gesture at once.
SetCallbacks ==
    /\ open
    /\ ~(onClick /\ onDoubleClick /\ onDragStart /\ onDrag /\ onDragEnd)
    /\ onClick' = TRUE /\ onDoubleClick' = TRUE /\ onDragStart' = TRUE
    /\ onDrag' = TRUE /\ onDragEnd' = TRUE
    /\ UNCHANGED <<eDown, eMove, eUp, eLastDown, dragStarted, isDown, isDouble,
                   clearEventsOnReset, pointerId, finallyCb, captured>>
    /\ Assigned

\* The host's touch bookkeeping sets the two flags the tracker only clears.
SetTouchFlags ==
    /\ open
    /\ ~(isDown /\ isDouble)
    /\ isDown' = TRUE /\ isDouble' = TRUE
    /\ UNCHANGED <<eDown, eMove, eUp, eLastDown, dragStarted, clearEventsOnReset,
                   pointerId, onClick, onDoubleClick, onDragStart, onDrag,
                   onDragEnd, finallyCb, captured>>
    /\ Assigned

\* Sessions of two pointers, opened by the primary button, with cleanup
\* callbacks and with either value of clearEventsOnReset: every pointerdown is
\* at the origin, a pointermove or pointerup is there or farther away than
\* maxClickDrift, the timestamps are 0 and bufferTime, and a pointerup or
\* pointermove may be for another button than the session's.
SessionPoints == {<<0, 0>>, <<0, 3 * maxClickDrift>>}
SessionTimes == {0, bufferTime}
SessionDownEvents ==
    DownEventsOf({1}, {0}, {<<0, 0>>}, SessionTimes)
        \cup DownEventsOf({2}, {0}, {<<0, 0>>}, {bufferTime})
SessionMoveEvents == MoveEventsOf({1}, {0, 1, 2}, SessionPoints, SessionTimes)
SessionUpEvents == UpEventsOf({1}, {0, 2}, SessionPoints, SessionTimes)
Finalizers == {"f1", "f2"}

NextSession ==
    \/ Down(SessionDownEvents)
    \/ Move(SessionMoveEvents)
    \/ Up(SessionUpEvents)
    \/ Reset
    \/ SetFinally(Finalizers)
    \/ SetCallbacks
    \/ SetTouchFlags

\* The host may have cleared clearEventsOnReset right after construction.
InitSession == \E clear \in BOOLEAN : InitWith(clear)

SpecSession == InitSession /\ [][NextSession]_vars

\* ------------------------------------------------------------- claims

Callbacks == {"onClick", "onDoubleClick", "onDragStart", "onDrag", "onDragEnd"}

\* Squared distance between two events.
Drift2(a, b) == dist2(a.clientX, a.clientY, b.clientX, b.clientY)

\* The step is an up(e) call whose button is that of the open session's down
\* event: e is arg'.
MatchingUp == op' = "up" /\ eDown # Null /\ arg'.button = eDown.button

\* The step is a move(e) call on an open session that reports other buttons
\* than the session's, and at least one.
ReleasingMove ==
    /\ op' = "move" /\ eDown # Null
    /\ arg'.buttons # 0 /\ BitAnd(arg'.buttons, eDown.buttons) = 0

\* C1 as stated: a session closed by a matching up within maxClickDrift of the
\* down and less than bufferTime after it, with onClick and onDoubleClick
\* registered, invokes exactly one of onClick / onDoubleClick and none of
\* onDragStart, onDrag, onDragEnd.
C1_AsStated ==
    [][(/\ MatchingUp
        /\ Drift2(arg', eDown) <= maxClickDrift2
        /\ arg'.timeStamp - eDown.timeStamp < bufferTime
        /\ onClick /\ onDoubleClick)
       => /\ cnt'["onClick"] + cnt'["onDoubleClick"] = 1
          /\ cnt'["onDragStart"] = 0 /\ cnt'["onDrag"] = 0 /\ cnt'["onDragEnd"] = 0]_vars

\* C1, amended: the same for a session that received no tracked pointermove
\* between its down and its up.
C1_ClickWithoutMove ==
    [][(/\ MatchingUp
        /\ cnt["move"] = 0
        /\ Drift2(arg', eDown) <= maxClickDrift2
        /\ arg'.timeStamp - eDown.timeStamp < bufferTime
        /\ onClick /\ onDoubleClick)
       => /\ cnt'["onClick"] + cnt'["onDoubleClick"] = 1
          /\ cnt'["onDragStart"] = 0 /\ cnt'["onDrag"] = 0 /\ cnt'["onDragEnd"] = 0]_vars

\* An up just closed a session without moves as a click, exactly maxClickDrift
\* from its down event (now eLastDown) and less than bufferTime after it.
C1_Witness ==
    /\ op = "up" /\ ret = "true" /\ branch = "click"
    /\ cnt["move"] = 0 /\ cnt["onClick"] = 1 /\ cnt["onDoubleClick"] = 0
    /\ eLastDown # Null /\ arg.button = eLastDown.button
    /\ Drift2(arg, eLastDown) = maxClickDrift2
    /\ arg.timeStamp - eLastDown.timeStamp < bufferTime

\* C2 as stated: a session with at least one tracked move, closed by a matching
\* up at least bufferTime after the down: dragStarted became true exactly once,
\* onDragEnd (when registered) is invoked exactly once, onClick never.
C2_AsStated ==
    [][(/\ MatchingUp
        /\ cnt["move"] >= 1
        /\ arg'.timeStamp - eDown.timeStamp >= bufferTime)
       => /\ cnt'["dragStarted"] = 1
          /\ cnt'["onDragEnd"] = (IF onDragEnd THEN 1 ELSE 0)
          /\ cnt'["onClick"] = 0]_vars

\* C2, amended: the same for a session whose latest tracked move came more than
\* bufferTime after the down (timestamps never decrease, so this is the case as
\* soon as any tracked move did).
C2_DragAfterLateMove ==
    [][(/\ MatchingUp
        /\ cnt["move"] >= 1 /\ eMove # Null
        /\ eMove.timeStamp - eDown.timeStamp > bufferTime)
       => /\ cnt'["dragStarted"] = 1
          /\ cnt'["onDragEnd"] = (IF onDragEnd THEN 1 ELSE 0)
          /\ cnt'["onClick"] = 0]_vars

\* An up, later than bufferTime, just closed a session that had moves and a
\* drag started by a move: dragStarted rose once, onDragEnd ran once.
C2_Witness ==
    /\ op = "up" /\ ret = "false" /\ branch = "drag"
    /\ arg.timeStamp > bufferTime
    /\ cnt["move"] >= 1 /\ cnt["dragStarted"] = 1 /\ cnt["onDragEnd"] = 1
    /\ cnt["onClick"] = 0

\* C3: a matching up farther than maxClickDrift from the down event of a
\* session without moves invokes onDragStart and then onDragEnd, each once when
\* registered, and neither onClick nor onDoubleClick.
C3_Teleport ==
    [][(/\ MatchingUp
        /\ cnt["move"] = 0
        /\ Drift2(arg', eDown) > maxClickDrift2)
       => Only(fired', Callbacks) =
              (IF onDragStart THEN <<"onDragStart">> ELSE <<>>)
              \o (IF onDragEnd THEN <<"onDragEnd">> ELSE <<>>)]_vars

\* An up just closed a session without moves by a teleport, with both
\* callbacks registered.
C3_Witness ==
    /\ op = "up" /\ branch = "teleport" /\ cnt["move"] = 0
    /\ Only(fired, Callbacks) = <<"onDragStart", "onDragEnd">>

\* C4: with clearEventsOnReset true, eLastDown is empty once a session has
\* closed by a double click and until a session closes as a click; the next
\* session that closes as a click or double click invokes onClick, when
\* registered, and not onDoubleClick.
C4_NoSecondDoubleClick ==
    [][clearEventsOnReset
       => /\ (branch' = "double" => "onDoubleClick" \in Range(fired') /\ eLastDown' = Null)
          /\ (LastClick' = "double" => eLastDown' = Null)
          /\ (LastClick = "double" /\ branch' \in {"click", "double"})
             => /\ branch' = "click"
                /\ Only(fired', {"onClick", "onDoubleClick"}) =
                       (IF onClick THEN <<"onClick">> ELSE <<>>)]_vars

\* The session after a double click just closed as a click, invoking onClick.
C4_Witness ==
    /\ clearEventsOnReset
    /\ prevClick = "double" /\ branch = "click"
    /\ Only(fired, {"onClick", "onDoubleClick"}) = <<"onClick">>

\* The double-click test of C5 on the two down events.
C5_Pairs ==
    /\ eLastDown # Null
    /\ eDown.timeStamp - eLastDown.timeStamp > 0
    /\ eDown.timeStamp - eLastDown.timeStamp < doubleClickTime
    /\ Drift2(eDown, eLastDown) <= (3 * maxClickDrift) * (3 * maxClickDrift)

RunsReset ==
    \/ op' \in {"reset", "down"}
    \/ op' = "move" /\ eDown # Null /\ ~Tracked(arg')
    \/ op' = "up" /\ eDown # Null /\ arg'.button = eDown.button

\* The step closes the open session.
Closes == open /\ (~open' \/ op' = "down")

\* C6: while a session is open the element holds capture for exactly the
\* pointerId of its down event, and for none when no session is open; every
\* step that closes a session calls releasePointerCapture exactly once;
\* releasePointerCapture is only called for a pointer whose capture is held.
C6_Capture ==
    [][/\ open' => captured' = {eDown'.pointerId} /\ pointerId' = eDown'.pointerId
       /\ ~open' => captured' = {}
       /\ Closes => Occurrences(fired', "releasePointerCapture") = 1
       /\ Occurrences(fired', "releasePointerCapture") =
              (IF pointerId \in captured /\ RunsReset THEN 1 ELSE 0)]_vars

\* A down for another pointer just superseded an open session: the old capture
\* was released once and the new pointer is the only one captured.
C6_Witness ==
    /\ op = "down" /\ fired = <<"releasePointerCapture", "setPointerCapture">>
    /\ captured = {2} /\ eDown.pointerId = 2

\* C7: assigning finally invokes the stored callback once and stores the new
\* one without invoking it; a stored callback is invoked once, by the next
\* assignment or reset, and by no other step.
C7_FinallySwap ==
    [][/\ \A f \in Finalizers :
              Occurrences(fired', f) =
                  (IF finallyCb = f /\ (op' = "finally" \/ RunsReset) THEN 1 ELSE 0)
       /\ finallyCb' \in Finalizers \cup {NoCallback}
       /\ (op' = "finally" => finallyCb' \in Finalizers)
       /\ (finallyCb' # finallyCb => op' = "finally" \/ RunsReset)
       /\ (RunsReset => finallyCb' = NoCallback)]_vars

\* finally = f2 was just assigned over f1: f1 ran, f2 is stored and did not.
C7_Witness ==
    /\ op = "finally" /\ fired = <<"f1">> /\ finallyCb = "f2"

\* C8: the second of two reset() calls in a row invokes nothing (no finally,
\* no releasePointerCapture) and leaves every field as the first left it.
C8_ResetTwice ==
    [][(op' = "reset" /\ resets >= 1)
       => fired' = <<>> /\ UNCHANGED fields]_vars

\* reset() was called twice in a row on a tracker that has completed a click.
C8_Witness ==
    /\ op = "reset" /\ resets = 2 /\ fired = <<>> /\ eLastDown # Null

\* C9 as stated: up(e) whose button differs from that of the open session's
\* down event, or with no open session, returns false, invokes nothing and
\* changes no field; capture stays as it was.
C9_AsStated ==
    [][(op' = "up" /\ (~open \/ arg'.button # eDown.button))
       => ret' = "false" /\ fired' = <<>> /\ UNCHANGED fields]_vars

\* What holds of C9 for either value of clearEventsOnReset: up(e) whose button
\* differs from that of the down event the tracker holds, or with none held,
\* returns false, invokes nothing and changes no field.
C9_MismatchedUp ==
    [][(op' = "up" /\ (eDown = Null \/ arg'.button # eDown.button))
       => ret' = "false" /\ fired' = <<>> /\ UNCHANGED fields]_vars

\* With events kept on reset, an up for the button of the kept down event
\* just acted although no session was open (a real close releases capture):
\* it returned true and recorded itself in eUp and the down event in eLastDown.
C9_IdleUpActs ==
    /\ ~clearEventsOnReset
    /\ op = "up" /\ ret = "true" /\ fired = <<>>
    /\ eUp = arg /\ eLastDown = eDown

\* C10 as stated: up(e) returns true exactly when a session is open, e.button
\* is the button of its down event, no move has started a drag, and e is
\* within maxClickDrift of the down event (the click and double-click
\* branches); it returns false otherwise, in particular on a teleport.
C10_AsStated ==
    [][op' = "up"
       => /\ ret' \in {"true", "false"}
          /\ ret' = "true" <=> /\ open /\ arg'.button = eDown.button
                               /\ ~dragStarted
                               /\ Drift2(arg', eDown) <= maxClickDrift2]_vars

\* What holds of C10 for either value of clearEventsOnReset: the same with
\* "the tracker holds a down event" in place of "a session is open".
C10_UpResult ==
    [][op' = "up"
       => /\ ret' \in {"true", "false"}
          /\ ret' = "true" <=> /\ eDown # Null /\ arg'.button = eDown.button
                               /\ ~dragStarted
                               /\ Drift2(arg', eDown) <= maxClickDrift2
          /\ ret' = "true" <=> branch' \in {"click", "double"}
          /\ (eDown # Null /\ arg'.button = eDown.button)
             => branch' \in {"click", "double", "drag", "teleport"}]_vars

\* With events kept on reset, an up just took the click branch and returned
\* true although the session had been closed before it.
C10_IdleUpReturnsTrue ==
    /\ ~clearEventsOnReset
    /\ op = "up" /\ ret = "true" /\ branch = "click"
    /\ Occurrences(fired, "releasePointerCapture") = 0

\* C11: the finally callback a session holds when it closes is invoked exactly
\* once by the call that closes it, on every closing path, and the slot is then
\* empty; while the session stays open only an assignment to finally invokes
\* it; with no session open the slot is empty and no finally callback runs.
C11_FinallyOnClose ==
    [][/\ \A f \in Finalizers :
              /\ (Closes /\ finallyCb = f)
                 => Occurrences(fired', f) = 1 /\ finallyCb' # f
              /\ (open /\ ~Closes /\ op' # "finally") => Occurrences(fired', f) = 0
              /\ ~open => Occurrences(fired', f) = 0
       /\ (Closes /\ op' # "down") => finallyCb' = NoCallback
       /\ ~open' => finallyCb' = NoCallback]_vars

\* A move that reports no buttons just closed a session whose finally callback
\* f1 ran in that call.
C11_Witness ==
    /\ op = "move" /\ arg.buttons = 0 /\ ~open
    /\ Only(fired, Finalizers) = <<"f1">> /\ finallyCb = NoCallback

\* The run-once callback named c is registered.
Registered(c) ==
    CASE c = "onClick" -> onClick
      [] c = "onDoubleClick" -> onDoubleClick
      [] c = "onDragStart" -> onDragStart
      [] c = "onDrag" -> onDrag
      [] c = "onDragEnd" -> onDragEnd

\* C12: after every call that runs reset() the five run-once callbacks and
\* finally are empty and isDown, isDouble and dragStarted are false; a session
\* therefore starts with no callback, and a call invokes a run-once callback
\* only if it was registered during the session that is open.
C12_ResetClears ==
    [][/\ RunsReset
          => /\ \A c \in Callbacks : ~Registered(c)'
             /\ finallyCb' = NoCallback
             /\ ~isDown' /\ ~isDouble' /\ ~dragStarted'
       /\ \A c \in Callbacks :
              c \in Range(fired') => open /\ Registered(c)]_vars

\* An up just closed a session as a click after invoking onClick and the
\* finally callback; the callbacks that did not run are gone as well.
C12_Witness ==
    /\ op = "up" /\ branch = "click"
    /\ Only(fired, Callbacks \cup Finalizers) = <<"onClick", "f1">>
    /\ \A c \in Callbacks : ~Registered(c)
    /\ finallyCb = NoCallback /\ ~isDown /\ ~isDouble /\ ~dragStarted

\* The fields of the instance record s, in the order of fields.
FieldsOf(s) ==
    <<s.eDown, s.eMove, s.eUp, s.eLastDown, s.dragStarted, s.isDown, s.isDouble,
      s.clearEventsOnReset, s.pointerId, s.onClick, s.onDoubleClick, s.onDragStart,
      s.onDrag, s.onDragEnd, s.finallyCb, s.captured>>

\* C13: down(e) on an open session ends in the state, and makes the calls,
\* that reset() followed by down(e) would: the finally callback held is invoked
\* once and no other callback, the old capture is released, the callbacks are
\* cleared, dragStarted is false, eDown is e, pointerId is e.pointerId and
\* capture is held for e.pointerId alone.
C13_DownIsResetThenDown ==
    [][(op' = "down" /\ open)
       => /\ fields' = FieldsOf(down(reset(This), arg'))
          /\ fired' = down(reset(This), arg').log
          /\ Only(fired', Finalizers \cup Callbacks) =
                 (IF finallyCb # NoCallback THEN <<finallyCb>> ELSE <<>>)
          /\ Occurrences(fired', "releasePointerCapture") = 1
          /\ \A c \in Callbacks : ~Registered(c)'
          /\ finallyCb' = NoCallback /\ ~dragStarted'
          /\ eDown' = arg' /\ pointerId' = arg'.pointerId
          /\ captured' = {arg'.pointerId}]_vars

\* A down for pointer 2 just superseded a session of pointer 1: its finally
\* callback ran, its capture was released and pointer 2 is captured.
C13_Witness ==
    /\ op = "down" /\ eDown = arg /\ arg.pointerId = 2
    /\ fired = <<"f1", "releasePointerCapture", "setPointerCapture">>
    /\ captured = {2} /\ pointerId = 2

\* C14: in a session dragStarted rises at most once and, while the session is
\* open, has not fallen back (it is true exactly when it has risen), and
\* onDragStart is invoked at most once, and only when dragStarted rises.
C14_DragStartsOnce ==
    /\ cnt["dragStarted"] <= 1
    /\ cnt["onDragStart"] <= cnt["dragStarted"]
    /\ open => (dragStarted <=> cnt["dragStarted"] = 1)

\* A second tracked move of a dragging session just ran with onDragStart
\* registered again after it had been invoked: it was not invoked again.
C14_Witness ==
    /\ open /\ dragStarted /\ op = "move" /\ cnt["move"] >= 2
    /\ cnt["dragStarted"] = 1 /\ cnt["onDragStart"] = 1
    /\ onDragStart /\ "onDragStart" \notin Range(fired)

\* C15: move(e) with e.buttons = 0 on an open session, dragging or not, invokes
\* the finally callback held and releases capture, and nothing else; none of
\* the five callbacks runs and all are cleared, eLastDown keeps its value and
\* eUp and eMove are not set from e.
C15_AbortOnNoButtons ==
    [][(op' = "move" /\ open /\ arg'.buttons = 0)
       => /\ fired' = (IF finallyCb # NoCallback THEN <<finallyCb>> ELSE <<>>)
                      \o <<"releasePointerCapture">>
          /\ branch' = "none"
          /\ \A c \in Callbacks : ~Registered(c)'
          /\ finallyCb' = NoCallback /\ ~dragStarted' /\ captured' = {}
          /\ eLastDown' = eLastDown
          /\ eUp' = (IF clearEventsOnReset THEN Null ELSE eUp)
          /\ eMove' = (IF clearEventsOnReset THEN Null ELSE eMove)
          /\ eDown' = (IF clearEventsOnReset THEN Null ELSE eDown)]_vars

\* A move with no buttons just ended a session that was dragging with
\* onDragEnd registered: onDragEnd did not run, finally did.
C15_Witness ==
    /\ op = "move" /\ arg.buttons = 0
    /\ cnt["dragStarted"] = 1 /\ cnt["onDragStart"] = 1 /\ cnt["onDragEnd"] = 0
    /\ fired = <<"f1", "releasePointerCapture">>

\* The pointerup for the session's button at the place and time of the
\* pointermove e.
UpLike(e) == [e EXCEPT !.button = eDown.button, !.buttons = 0]

\* C16: move(e) on an open session, with e.buttons non-zero and without the
\* session's button, takes the branch of #completeClick, makes the calls and
\* leaves the fields that up would for the matching pointerup at the same place
\* and time, eUp being e where up leaves its own event; it does not invoke
\* onDrag and does not store e in eMove.
C16_ReleaseInMove ==
    [][(ReleasingMove /\ open)
       => LET u == UpLike(arg')
              t == up(This, u)
          IN  /\ fired' = t.log
              /\ branch' = t.branch /\ branch' # "none"
              /\ fields' = FieldsOf([t EXCEPT !.eUp = IF @ = u THEN arg' ELSE @])
              /\ "onDrag" \notin Range(fired')
              /\ eMove' # arg']_vars

\* A move that reports only the secondary button just closed a session as a
\* double click.
C16_Witness ==
    /\ op = "move" /\ arg.buttons = 2 /\ branch = "double"
    /\ Only(fired, Callbacks) = <<"onDoubleClick">>
    /\ eLastDown = Null

\* The tracked move e exceeds a drag threshold of the session, both strictly.
Exceeds(e) ==
    \/ e.timeStamp - eDown.timeStamp > bufferTime
    \/ Drift2(e, eDown) > maxClickDrift2

C18_TimeAloneNoDrag ==
    [][(/\ MatchingUp /\ open
        /\ cnt["move"] = 0
        /\ Drift2(arg', eDown) <= maxClickDrift2)
       => /\ ret' = "true"
          /\ branch' \in {"click", "double"}
          /\ Only(fired', Callbacks) =
                 (IF onDoubleClick /\ C5_Pairs THEN <<"onDoubleClick">>
                  ELSE IF onClick THEN <<"onClick">>
                  ELSE <<>>)
          /\ cnt'["dragStarted"] = 0
          /\ cnt'["onDragStart"] = 0 /\ cnt'["onDragEnd"] = 0]_vars

\* An up twice bufferTime after the down of a session without moves just
\* closed it as a click and returned true; nothing of a drag happened.
C18_Witness ==
    /\ op = "up" /\ ret = "true" /\ branch = "click" /\ cnt["move"] = 0
    /\ eLastDown # Null /\ arg.timeStamp - eLastDown.timeStamp >= 2 * bufferTime
    /\ Only(fired, Callbacks) = <<"onClick">>
    /\ cnt["onDragEnd"] = 0 /\ cnt["dragStarted"] = 0

\* C19 as stated: with no session open, move(e) and up(e) invoke nothing and
\* change no field, for both values of clearEventsOnReset; dragStarted is true
\* only while a session is open.
C19_AsStated ==
    [][/\ (~open /\ op' \in {"move", "up"})
          => fired' = <<>> /\ UNCHANGED fields
       /\ dragStarted' => open']_vars

\* What holds of C19: the same when events are cleared on reset, and, for
\* either value of the flag, when the tracker holds no down event.
C19_IdleWhenCleared ==
    [][/\ (~open /\ (clearEventsOnReset \/ eDown = Null) /\ op' \in {"move", "up"})
          => fired' = <<>> /\ UNCHANGED fields
       /\ (clearEventsOnReset /\ dragStarted') => open']_vars

\* With events kept on reset, a move after the session was closed just stored
\* itself in eMove and set dragStarted with no session open.
C19_IdleMoveStartsDrag ==
    /\ ~clearEventsOnReset /\ ~open
    /\ op = "move" /\ eMove = arg /\ dragStarted

\* C20 as stated: eLastDown changes only in a call that closes a session on
\* the click branch, which sets it to the session's down event, or on the
\* double-click branch, which clears it; every other call leaves it unchanged.
C20_AsStated ==
    [][/\ eLastDown' # eLastDown => open /\ branch' \in {"click", "double"}
       /\ (open /\ branch' = "click") => eLastDown' = eDown
       /\ (open /\ branch' = "double") => eLastDown' = Null]_vars

\* What holds of C20 for either value of clearEventsOnReset: eLastDown is set
\* to the down event held by a call that takes the click branch of
\* #completeClick, cleared by one that takes the double-click branch, and left
\* unchanged by every other call.
C20_LastDownByBranch ==
    [][/\ branch' = "click" => eLastDown' = eDown
       /\ branch' = "double" => eLastDown' = Null
       /\ branch' \notin {"click", "double"} => eLastDown' = eLastDown]_vars

\* With events kept on reset, an up after the session was closed just took the
\* first click branch ever taken and set eLastDown to the kept down event.
C20_IdleUpSetsLastDown ==
    /\ ~clearEventsOnReset /\ ~open
    /\ op = "up" /\ branch = "click" /\ prevClick = "none"
    /\ Occurrences(fired, "releasePointerCapture") = 0
    /\ eLastDown = eDown /\ eLastDown # Null

====
